---------------------------- MODULE Spec2Model ----------------------------
(***************************************************************************)
(* EquiCare: the secure recording lifecycle.                               *)
(*                                                                         *)
(* The database rows (users, audit_log, recordings), the per-browser       *)
(* st.session_state and the service calls that change them.  One clock     *)
(* tick is one minute of datetime.utcnow().                                *)
(***************************************************************************)
EXTENDS Integers, Sequences, FiniteSets, TLC

VARIABLES
    now,            \* datetime.utcnow(), in minutes
    users,          \* table users: user_id (1..Len) -> row
    audit_log,      \* table audit_log, in insertion order
    session_state,  \* st.session_state of each browser session
    recordings,     \* table recordings: recording_id (1..Len) -> row
    call,           \* the service call each session has in flight
    ret,            \* what the last service call returned to its caller
    consec_failed,  \* history: failed password checks of a user since the last
                    \* successful login, password reset or reactivation
    key_file,       \* data/audio_encryption.key: the key it holds, or None
    files,          \* data/audio: file path -> what the file holds
    audio_service,  \* the AudioService instance of each process
    cases,          \* table cases: case_id (1..Len) -> row
    temp_files      \* the temporary .wav files on disk, holding decrypted audio

audio_vars == <<key_file, files, audio_service>>

vars == <<now, users, audit_log, session_state, recordings, call, ret, consec_failed,
          audio_vars, cases, temp_files>>

----------------------------------------------------------------------------
(* Bounds of the model *)

MaxTime == 1
MaxAudit == 3
MaxUsers == 2
MaxRecordings == 1
MaxCases == 2
MaxTempFiles == 1

\* Two browser sessions
Sessions == {"s1", "s2"}

(* Configuration (config.yaml through Settings) *)

MAX_LOGIN_ATTEMPTS == 2
LOCKOUT_DURATION_MINUTES == 1
PASSWORD_MIN_LENGTH == 8

\* audio_service.py line 88: the length of a WAV header
WAV_HEADER_BYTES == 44

(* Python None in a nullable integer or DateTime column, SQL NULL in a Text column *)
None == -1
NULL == [kind |-> "NULL"]

----------------------------------------------------------------------------
(* src/auth/password_utils.py *)

Digits == {"0", "1", "2", "3", "4", "5", "6", "7", "8", "9"}
Punctuation == {"!", "@", "#", "$", "%", "^", "&", "*", "(", ")", "_", "+", "-", "=",
                "[", "]", "{", "}", "|", ";", ":", ",", ".", "<", ">", "?"}

\* A password is its sequence of characters.
PwA == <<"s", "e", "c", "r", "e", "t", "1", "!">>
PwB == <<"h", "u", "n", "t", "e", "r", "2", "#">>
PwNoSymbol == <<"p", "a", "s", "s", "w", "o", "r", "d", "1">>
PwEmpty == <<>>

\* bcrypt: one-way, so a hash is only ever compared with the hash of a candidate.
\* The random salt is carried in the hash and does not change what verifies.
hash_password(password) == [alg |-> "bcrypt", digest_of |-> password]

verify_password(password, password_hash) == password_hash = hash_password(password)

validate_password_strength(password) ==
    IF Len(password) < PASSWORD_MIN_LENGTH THEN [is_valid |-> FALSE, error |-> "too_short"]
    ELSE IF ~\E i \in 1..Len(password) : password[i] \in Digits
         THEN [is_valid |-> FALSE, error |-> "no_number"]
    ELSE IF ~\E i \in 1..Len(password) : password[i] \in Punctuation
         THEN [is_valid |-> FALSE, error |-> "no_special"]
    ELSE [is_valid |-> TRUE, error |-> ""]

----------------------------------------------------------------------------
(* Inputs *)

Usernames == {"admin", "alice"}
LoginUsernames == Usernames \cup {""}
LoginPasswords == {PwEmpty, PwA, PwB}
NewPasswords == {PwB, PwNoSymbol}
UserIds == 1..MaxUsers

NoRet == [op |-> "none", success |-> FALSE, message |-> ""]
Idle == [op |-> "idle"]
LoggedOut == [authenticated |-> FALSE, user_id |-> None, role |-> ""]

(* src/services/audio_service.py: the values the audio store works on *)

\* The processes that import audio_service (line 170 builds one instance each)
Processes == {"p1", "p2"}

\* Fernet.generate_key(): random, so the keys of two calls differ; a key is
\* named after the process that generated it.  NoKey: the key file is absent.
generate_key(p) == [generated_by |-> p]
NoKey == [generated_by |-> ""]

\* An audio payload: its length in bytes, whether bytes 0-3 and 8-11 spell
\* RIFF and WAVE, and the little-endian byte rate at bytes 28-31
ShortPayload == [len |-> 10, riff_wave |-> FALSE, byte_rate |-> 0]
RawPayload == [len |-> 64000, riff_wave |-> FALSE, byte_rate |-> 0]
WavPayload == [len |-> 32044, riff_wave |-> TRUE, byte_rate |-> 32000]
WavZeroRatePayload == [len |-> 32044, riff_wave |-> TRUE, byte_rate |-> 0]
Payloads == {ShortPayload, RawPayload, WavPayload, WavZeroRatePayload}

\* Mutant: only the header of the payload is encrypted
encrypt_header_only(key, audio_bytes) ==
    [kind |-> "fernet", key |-> key,
     audio_bytes |-> [audio_bytes EXCEPT !.len = WAV_HEADER_BYTES]]

\* cipher.encrypt / cipher.decrypt: a Fernet token is opened only by the key
\* that made it; any other key raises InvalidToken
encrypt(key, audio_bytes) == [kind |-> "fernet", key |-> key, audio_bytes |-> audio_bytes]
InvalidToken == [raised |-> "InvalidToken"]
FileNotFoundError == [raised |-> "FileNotFoundError"]
decrypt(key, token) ==
    IF token.key = key THEN [raised |-> "", audio_bytes |-> token.audio_bytes]
    ELSE InvalidToken

\* Lines 51-54: case_{case_id}_user_{user_id}_{%Y%m%d_%H%M%S}.enc under
\* data/audio; t is the clock reading, which strftime cuts to its whole unit
file_path_of(case_id, user_id, t) ==
    [root |-> "ROOT_DIR",
     path |-> [dir |-> "data/audio", case_id |-> case_id, user_id |-> user_id,
               timestamp |-> t]]

\* Line 70: str(file_path.relative_to(Settings.ROOT_DIR)), what save_audio returns;
\* line 123: Settings.ROOT_DIR / file_path, what load_audio opens
relative_to_root(file_path) == file_path.path
full_path(file_path) == [root |-> "ROOT_DIR", path |-> file_path]

CaseIds == {1}
AudioFiles == { file_path_of(c, 1, t) : c \in CaseIds, t \in 0..MaxTime }
AudioPaths == { relative_to_root(f) : f \in AudioFiles }
NoFile == [kind |-> "absent"]

\* session.query(User).filter_by(username=username).first(): 0 stands for no row
user_by_username(username) ==
    IF \E i \in 1..Len(users) : users[i].username = username
    THEN CHOOSE i \in 1..Len(users) : users[i].username = username
    ELSE 0

Init ==
    /\ now = 0
    /\ users = << [username |-> "admin", password_hash |-> hash_password(PwA),
                   role |-> "administrator", is_active |-> TRUE, last_login |-> None,
                   failed_login_attempts |-> 0, locked_until |-> None] >>
    /\ audit_log = <<>>
    /\ session_state = [s \in Sessions |-> LoggedOut]
    /\ recordings = <<>>
    /\ call = [s \in Sessions |-> Idle]
    /\ ret = NoRet
    /\ consec_failed = [u \in UserIds |-> 0]
    /\ key_file = NoKey
    /\ files = [f \in AudioFiles |-> NoFile]
    /\ audio_service = [p \in Processes |-> [pc |-> "import", encryption_key |-> NoKey]]
    /\ cases = <<>>
    /\ temp_files = {}

NoCallInFlight == \A s \in Sessions : call[s] = Idle

Tick ==
    /\ now < MaxTime
    /\ now' = now + 1
    /\ UNCHANGED <<cases, temp_files, audio_vars, users, audit_log, session_state, recordings, call, ret, consec_failed>>

----------------------------------------------------------------------------
(* src/ui/pages/login.py *)

\* log_audit: the row the call adds to the session
log_audit(user_id, action) == [user_id |-> user_id, action |-> action]

\* Mutant: the is_active test left out
is_deactivated_ignored(user) == FALSE

\* Lines 98-101: the test for a deactivated account
is_deactivated(user) == ~user.is_active

\* Mutant: the comparison with utcnow() the wrong way round
is_locked_flipped(user, t) == user.locked_until # None /\ user.locked_until < t

\* Mutant: a lock that is never compared with utcnow()
is_locked_no_expiry(user, t) == user.locked_until # None

\* Lines 103-107: the lock test of authenticate_user
is_locked(user, t) == user.locked_until # None /\ user.locked_until > t

\* Mutant: the lock is set only once the counter has passed the maximum
failed_attempt_locks_late(user, t) ==
    LET n == user.failed_login_attempts + 1 IN
    IF n > MAX_LOGIN_ATTEMPTS
    THEN [user EXCEPT !.failed_login_attempts = n,
                      !.locked_until = t + LOCKOUT_DURATION_MINUTES]
    ELSE [user EXCEPT !.failed_login_attempts = n]

\* Mutant: the lock is set only by the failure that reaches the maximum
failed_attempt_locks_once(user, t) ==
    LET n == user.failed_login_attempts + 1 IN
    IF n = MAX_LOGIN_ATTEMPTS
    THEN [user EXCEPT !.failed_login_attempts = n,
                      !.locked_until = t + LOCKOUT_DURATION_MINUTES]
    ELSE [user EXCEPT !.failed_login_attempts = n]

\* Lines 109-128: the row after a failed password check at time t
failed_attempt(user, t) ==
    LET n == user.failed_login_attempts + 1 IN
    IF n >= MAX_LOGIN_ATTEMPTS
    THEN [user EXCEPT !.failed_login_attempts = n,
                      !.locked_until = t + LOCKOUT_DURATION_MINUTES]
    ELSE [user EXCEPT !.failed_login_attempts = n]

\* Mutant: a successful login that leaves locked_until set
successful_login_keeps_lock(user, t) ==
    [user EXCEPT !.failed_login_attempts = 0, !.last_login = t]

\* Lines 130-134: the row after a successful login at time t
successful_login(user, t) ==
    [user EXCEPT !.failed_login_attempts = 0, !.locked_until = None, !.last_login = t]

\* Lines 109-146: the password check on the row `user` that the call has read:
\* what the call returns, the row it writes back, the audit row it adds.
check_password(user, uid, password, t) ==
    IF ~verify_password(password, user.password_hash)
    THEN [success |-> FALSE,
          message |-> IF user.failed_login_attempts + 1 >= MAX_LOGIN_ATTEMPTS
                      THEN "too_many_attempts" ELSE "invalid_password",
          user_id |-> uid, write |-> TRUE,
          row |-> failed_attempt(user, t),
          audit |-> <<log_audit(uid, "login_failed")>>]
    ELSE [success |-> TRUE, message |-> "ok", user_id |-> uid, write |-> TRUE,
          row |-> successful_login(user, t),
          audit |-> <<log_audit(uid, "login")>>]

\* Mutant: an attempt made during a lock is counted as a failure and extends
\* the lock
authenticate_user_counting_locked(username, password, t) ==
    LET uid == user_by_username(username)
        unchanged(msg) == [success |-> FALSE, message |-> msg, user_id |-> uid,
                           write |-> FALSE, audit |-> <<>>]
    IN  IF username = "" \/ password = PwEmpty THEN unchanged("empty")
        ELSE IF uid = 0 THEN unchanged("unknown")
        ELSE IF is_deactivated(users[uid]) THEN unchanged("deactivated")
        ELSE IF is_locked(users[uid], t)
        THEN [success |-> FALSE, message |-> "locked", user_id |-> uid,
              write |-> TRUE, row |-> failed_attempt(users[uid], t), audit |-> <<>>]
        ELSE check_password(users[uid], uid, password, t)

\* authenticate_user(username, password) run at time t against the users table:
\* what it returns, the row it writes, the audit row it adds.
authenticate_user(username, password, t) ==
    LET uid == user_by_username(username)
        unchanged(msg) == [success |-> FALSE, message |-> msg, user_id |-> uid,
                           write |-> FALSE, audit |-> <<>>]
    IN  IF username = "" \/ password = PwEmpty THEN unchanged("empty")
        ELSE IF uid = 0 THEN unchanged("unknown")
        ELSE IF is_deactivated(users[uid]) THEN unchanged("deactivated")
        ELSE IF is_locked(users[uid], t) THEN unchanged("locked")
        ELSE check_password(users[uid], uid, password, t)

\* The login form: one authenticate_user call of session s.
Login(s, username, password) ==
    LET r == authenticate_user(username, password, now) IN
    /\ NoCallInFlight
    /\ ~session_state[s].authenticated
    /\ Len(audit_log) + Len(r.audit) <= MaxAudit
    /\ users' = IF r.write THEN [users EXCEPT ![r.user_id] = r.row] ELSE users
    /\ audit_log' = audit_log \o r.audit
    /\ session_state' = IF r.success
                        THEN [session_state EXCEPT ![s] =
                                [authenticated |-> TRUE, user_id |-> r.user_id,
                                 role |-> users[r.user_id].role]]
                        ELSE session_state
    /\ ret' = [op |-> "authenticate_user", success |-> r.success, message |-> r.message]
    /\ consec_failed' = IF r.success THEN [consec_failed EXCEPT ![r.user_id] = 0]
                        ELSE IF r.write THEN [consec_failed EXCEPT ![r.user_id] = @ + 1]
                        ELSE consec_failed
    /\ UNCHANGED <<cases, temp_files, audio_vars, now, recordings, call>>

\* sidebar.py: the Logout button
Logout(s) ==
    /\ NoCallInFlight
    /\ session_state[s].authenticated
    /\ session_state' = [session_state EXCEPT ![s] = LoggedOut]
    /\ ret' = NoRet
    /\ UNCHANGED <<cases, temp_files, audio_vars, now, users, audit_log, recordings, call, consec_failed>>

----------------------------------------------------------------------------
(* src/services/user_service.py: each operator is the users table after the call *)

create_user(username, password, role) ==
    IF ~validate_password_strength(password).is_valid \/ user_by_username(username) # 0
    THEN users
    ELSE Append(users, [username |-> username, password_hash |-> hash_password(password),
                        role |-> role, is_active |-> TRUE, last_login |-> None,
                        failed_login_attempts |-> 0, locked_until |-> None])

deactivate_user(user_id) ==
    IF user_id \notin 1..Len(users) THEN users
    ELSE [users EXCEPT ![user_id].is_active = FALSE]

activate_user(user_id) ==
    IF user_id \notin 1..Len(users) THEN users
    ELSE [users EXCEPT ![user_id].is_active = TRUE,
                       ![user_id].failed_login_attempts = 0,
                       ![user_id].locked_until = None]

reset_password(user_id, new_password) ==
    IF ~validate_password_strength(new_password).is_valid \/ user_id \notin 1..Len(users)
    THEN users
    ELSE [users EXCEPT ![user_id].password_hash = hash_password(new_password),
                       ![user_id].failed_login_attempts = 0,
                       ![user_id].locked_until = None]

change_own_password(user_id, current_password, new_password) ==
    IF \/ ~validate_password_strength(new_password).is_valid
       \/ user_id \notin 1..Len(users)
    THEN users
    ELSE IF ~verify_password(current_password, users[user_id].password_hash)
    THEN users
    ELSE [users EXCEPT ![user_id].password_hash = hash_password(new_password)]

\* The 'success' key of the dict each of these calls returns
create_user_ok(username, password) ==
    validate_password_strength(password).is_valid /\ user_by_username(username) = 0

user_found(user_id) == user_id \in 1..Len(users)

reset_password_ok(user_id, new_password) ==
    validate_password_strength(new_password).is_valid /\ user_found(user_id)

change_own_password_ok(user_id, current_password, new_password) ==
    /\ validate_password_strength(new_password).is_valid
    /\ user_found(user_id)
    /\ verify_password(current_password, users[user_id].password_hash)

\* admin.py shows its panel to sessions whose role is administrator
IsAdmin(s) == session_state[s].authenticated /\ session_state[s].role = "administrator"

Returned(op, success) == ret' = [op |-> op, success |-> success, message |-> ""]

\* admin.py: the Create User form
CreateUser(s, username, password, role) ==
    /\ NoCallInFlight
    /\ IsAdmin(s)
    /\ Len(users) < MaxUsers
    /\ users' = create_user(username, password, role)
    /\ Returned("create_user", create_user_ok(username, password))
    /\ UNCHANGED <<cases, temp_files, audio_vars, now, audit_log, session_state, recordings, call, consec_failed>>

\* admin.py: the Deactivate button of another user's row
DeactivateUser(s, user_id) ==
    /\ NoCallInFlight
    /\ IsAdmin(s)
    /\ user_found(user_id)
    /\ user_id # session_state[s].user_id
    /\ users[user_id].is_active
    /\ users' = deactivate_user(user_id)
    /\ Returned("deactivate_user", user_found(user_id))
    /\ UNCHANGED <<cases, temp_files, audio_vars, now, audit_log, session_state, recordings, call, consec_failed>>

\* admin.py: the Activate button of another user's row
ActivateUser(s, user_id) ==
    /\ NoCallInFlight
    /\ IsAdmin(s)
    /\ user_found(user_id)
    /\ user_id # session_state[s].user_id
    /\ ~users[user_id].is_active
    /\ users' = activate_user(user_id)
    /\ Returned("activate_user", user_found(user_id))
    /\ consec_failed' = [consec_failed EXCEPT ![user_id] = 0]
    /\ UNCHANGED <<cases, temp_files, audio_vars, now, audit_log, session_state, recordings, call>>

\* admin.py: the Reset Password form of another user's row
ResetPassword(s, user_id, new_password) ==
    /\ NoCallInFlight
    /\ IsAdmin(s)
    /\ user_found(user_id)
    /\ user_id # session_state[s].user_id
    /\ users' = reset_password(user_id, new_password)
    /\ Returned("reset_password", reset_password_ok(user_id, new_password))
    /\ consec_failed' = IF reset_password_ok(user_id, new_password)
                        THEN [consec_failed EXCEPT ![user_id] = 0]
                        ELSE consec_failed
    /\ UNCHANGED <<cases, temp_files, audio_vars, now, audit_log, session_state, recordings, call>>

\* settings.py: the Change Password form of the logged-in user
ChangeOwnPassword(s, current_password, new_password) ==
    /\ NoCallInFlight
    /\ session_state[s].authenticated
    /\ current_password # PwEmpty
    /\ users' = change_own_password(session_state[s].user_id, current_password, new_password)
    /\ Returned("change_own_password",
                change_own_password_ok(session_state[s].user_id, current_password,
                                       new_password))
    /\ UNCHANGED <<cases, temp_files, audio_vars, now, audit_log, session_state, recordings, call, consec_failed>>

NextAuth ==
    \/ Tick
    \/ \E s \in Sessions, username \in LoginUsernames, password \in LoginPasswords :
          Login(s, username, password)
    \/ \E s \in Sessions : Logout(s)
    \/ \E s \in Sessions, username \in Usernames, password \in NewPasswords,
          role \in {"social_worker"} :
          CreateUser(s, username, password, role)
    \/ \E s \in Sessions, user_id \in UserIds : DeactivateUser(s, user_id)
    \/ \E s \in Sessions, user_id \in UserIds : ActivateUser(s, user_id)
    \/ \E s \in Sessions, user_id \in UserIds, new_password \in NewPasswords :
          ResetPassword(s, user_id, new_password)
    \/ \E s \in Sessions, current_password \in LoginPasswords,
          new_password \in NewPasswords :
          ChangeOwnPassword(s, current_password, new_password)

SpecAuth == Init /\ [][NextAuth]_vars

----------------------------------------------------------------------------
(* src/services/case_service.py: each operator is the recordings table after
   the call.  The service functions take a recording id and a text from any
   caller; the model calls them with every id and text of its input sets.   *)

RecordingTypes == {"home_visit"}
FilePaths == {"data/audio/case_1_user_1_20260101_000000.enc"}

\* A value of a Text column
Text(t) == [kind |-> "text", text |-> t]

recording_found(recording_id) == recording_id \in 1..Len(recordings)

create_recording(case_id, user_id, recording_type, file_path, t) ==
    Append(recordings,
           [case_id |-> case_id, uploaded_by |-> user_id,
            recording_type |-> recording_type, file_path |-> file_path,
            transcription_status |-> "pending",
            transcription_started_at |-> None, transcription_completed_at |-> None,
            transcript_text |-> NULL, summary_text |-> NULL,
            last_edited_at |-> None, last_edited_by |-> None, created_at |-> t])

update_recording_transcript(recording_id, transcript, t) ==
    IF recording_found(recording_id)
    THEN [recordings EXCEPT ![recording_id].transcript_text = transcript,
                            ![recording_id].transcription_status = "completed",
                            ![recording_id].transcription_completed_at = t]
    ELSE recordings

update_recording_summary(recording_id, summary) ==
    IF recording_found(recording_id)
    THEN [recordings EXCEPT ![recording_id].summary_text = summary]
    ELSE recordings

\* record.py: save_recording, after the audio is stored
CreateRecording(recording_type, file_path) ==
    /\ NoCallInFlight
    /\ Len(recordings) < MaxRecordings
    /\ recordings' = create_recording(1, 1, recording_type, file_path, now)
    /\ ret' = [op |-> "create_recording", success |-> TRUE, message |-> ""]
    /\ UNCHANGED <<cases, temp_files, audio_vars, now, users, audit_log, session_state, call, consec_failed>>

----------------------------------------------------------------------------
(* src/services/transcription_service.py *)

\* What the Whisper API answers: the text, and the segments when it times them
WhisperResponses ==
    { [text |-> "hello", segments |-> <<>>],
      [text |-> "good morning how are you",
       segments |-> << [start |-> 0, text |-> "good morning"],
                       [start |-> 75, text |-> "how are you"] >>] }

\* MM:SS
_format_timestamp(seconds) == [mm |-> seconds \div 60, ss |-> seconds % 60]

_format_transcript_with_timestamps(segments) ==
    [kind |-> "timestamped",
     lines |-> [i \in 1..Len(segments) |->
                   [stamp |-> _format_timestamp(segments[i].start),
                    text |-> segments[i].text]]]

formatted_transcript(transcript) ==
    IF transcript.segments # <<>>
    THEN _format_transcript_with_timestamps(transcript.segments)
    ELSE Text(transcript.text)

InCall(s, pc) == call[s].op = "transcribe_recording" /\ call[s].pc = pc

Goto(s, pc) == call' = [call EXCEPT ![s].pc = pc]

\* Mutant: the call goes on without marking the recording
set_processing_skipped(recording_id, t) == recordings

\* Lines 44-49: the first session of the call sets the status to processing
set_processing(recording_id, t) ==
    IF recording_found(recording_id)
    THEN [recordings EXCEPT ![recording_id].transcription_status = "processing",
                            ![recording_id].transcription_started_at = t]
    ELSE recordings

\* Lines 36-49.  db_ok: whether the database answers; when it does not,
\* get_db_session re-raises and the handler at line 100 runs.
\* seen: the status the caller had read when it decided to call.
begin_transcribe_recording(s, recording_id, file_path, db_ok, seen) ==
    /\ recordings' = IF db_ok THEN set_processing(recording_id, now) ELSE recordings
    /\ call' = [call EXCEPT ![s] =
                  [op |-> "transcribe_recording",
                   pc |-> IF db_ok THEN "load_audio" ELSE "except",
                   recording_id |-> recording_id, file_path |-> file_path,
                   transcript |-> NULL, raised |-> FALSE, seen |-> seen,
                   \* temp_path is not bound until line 61
                   temp_path |-> 0,
                   \* history: this call committed the status processing
                   marked |-> db_ok /\ recording_found(recording_id),
                   \* history: the stored transcript when the call began
                   transcript_before |-> IF recording_found(recording_id)
                                         THEN recordings[recording_id].transcript_text
                                         ELSE NULL]]
    /\ ret' = NoRet
    /\ UNCHANGED <<cases, temp_files, audio_vars, now, users, audit_log, session_state, consec_failed>>

\* One call at a time, for any recording id and whatever the recording's status
transcribe_recording(s, recording_id, file_path, db_ok) ==
    /\ NoCallInFlight
    /\ recording_id \in 1..(Len(recordings) + 1)
    /\ begin_transcribe_recording(s, recording_id, file_path, db_ok,
                                  IF recording_found(recording_id)
                                  THEN recordings[recording_id].transcription_status
                                  ELSE "")

\* Lines 51-53: audio_service.load_audio reads and decrypts the file, or raises
transcribe_load_audio(s, ok) ==
    /\ InCall(s, "load_audio")
    /\ Goto(s, IF ok THEN "temp_file" ELSE "except")
    /\ UNCHANGED <<cases, temp_files, audio_vars, now, users, audit_log, session_state, recordings, ret, consec_failed>>

\* What becomes of the temporary file of lines 59-61
TempFileOutcomes == {"written", "not_created", "write_raised"}

\* NamedTemporaryFile picks a name that no file has
mkstemp == CHOOSE n \in 1..(Cardinality(temp_files) + 1) : n \notin temp_files

\* Lines 55-61: NamedTemporaryFile(delete=False) creates the file, or raises;
\* the decrypted audio is written to it, or the write raises and the with
\* block closes the file and leaves it on disk, outside the try of line 63
transcribe_temp_file(s, outcome) ==
    /\ InCall(s, "temp_file")
    /\ outcome = "write_raised" => Cardinality(temp_files) < MaxTempFiles
    /\ temp_files' = IF outcome = "not_created" THEN temp_files
                     ELSE temp_files \cup {mkstemp}
    /\ call' = [call EXCEPT ![s].pc = IF outcome = "written" THEN "whisper" ELSE "except",
                            ![s].temp_path = IF outcome = "written" THEN mkstemp ELSE 0]
    /\ UNCHANGED <<cases, audio_vars, now, users, audit_log, session_state, recordings,
                   ret, consec_failed>>

\* Lines 63-83: the Whisper call answers with a transcript, which is formatted
transcribe_whisper_ok(s, transcript) ==
    /\ InCall(s, "whisper")
    /\ call' = [call EXCEPT ![s].pc = "update_transcript",
                            ![s].transcript = formatted_transcript(transcript)]
    /\ UNCHANGED <<cases, temp_files, audio_vars, now, users, audit_log, session_state, recordings, ret, consec_failed>>

\* Lines 63-72: the Whisper call raises (an API error, a timeout); finally runs next
transcribe_whisper_raises(s) ==
    /\ InCall(s, "whisper")
    /\ call' = [call EXCEPT ![s].pc = "unlink", ![s].raised = TRUE]
    /\ UNCHANGED <<cases, temp_files, audio_vars, now, users, audit_log, session_state, recordings, ret, consec_failed>>

\* Lines 85-86: case_service.update_recording_transcript commits, or raises
transcribe_update_transcript(s, db_ok) ==
    /\ InCall(s, "update_transcript")
    /\ recordings' = IF db_ok
                     THEN update_recording_transcript(call[s].recording_id,
                                                      call[s].transcript, now)
                     ELSE recordings
    /\ call' = [call EXCEPT ![s].pc = "unlink", ![s].raised = ~db_ok]
    /\ UNCHANGED <<cases, temp_files, audio_vars, now, users, audit_log, session_state, ret, consec_failed>>

\* Lines 88-98: finally unlinks the temporary file; the call returns its success
\* dict unless an exception is pending or os.unlink raises, which leaves the file
transcribe_unlink(s, ok) ==
    /\ InCall(s, "unlink")
    /\ ~ok => Cardinality(temp_files) <= MaxTempFiles
    /\ temp_files' = IF ok THEN temp_files \ {call[s].temp_path} ELSE temp_files
    /\ IF ok /\ ~call[s].raised
       THEN /\ call' = [call EXCEPT ![s] = Idle]
            /\ ret' = [op |-> "transcribe_recording", success |-> TRUE, message |-> ""]
       ELSE /\ Goto(s, "except")
            /\ ret' = ret
    /\ UNCHANGED <<cases, audio_vars, now, users, audit_log, session_state, recordings,
                   consec_failed>>

set_failed(recording_id) ==
    IF recording_found(recording_id)
    THEN [recordings EXCEPT ![recording_id].transcription_status = "failed"]
    ELSE recordings

\* Lines 100-116: the handler sets the status to failed in a session of its own
\* and returns the failure dict; when that session raises, nothing catches it
transcribe_except(s, db_ok) ==
    /\ InCall(s, "except")
    /\ recordings' = IF db_ok THEN set_failed(call[s].recording_id) ELSE recordings
    /\ call' = [call EXCEPT ![s] = Idle]
    /\ ret' = [op |-> "transcribe_recording", success |-> FALSE,
               message |-> IF db_ok THEN "error" ELSE "raised"]
    /\ UNCHANGED <<cases, temp_files, audio_vars, now, users, audit_log, session_state, consec_failed>>

----------------------------------------------------------------------------
(* src/services/summarization_service.py *)

SummarizerAnswers == {"summary one", "summary two"}
TranscriptArguments == {"hello"}
CustomInstructions == {"", "shorter"}

\* _build_user_prompt: the interaction named in the prompt
interaction_type(recording_type) ==
    CASE recording_type = "phone" -> "phone call"
      [] recording_type = "home_visit" -> "home visit"
      [] recording_type = "office" -> "office meeting"
      [] OTHER -> "interaction"

_build_user_prompt(transcript, recording_type) ==
    [interaction |-> interaction_type(recording_type), instructions |-> "",
     transcript |-> transcript]

\* Lines 144-156: the prompt of regenerate_summary
regenerate_prompt(transcript, custom_instructions) ==
    IF custom_instructions # ""
    THEN [interaction |-> "", instructions |-> custom_instructions,
          transcript |-> transcript]
    ELSE _build_user_prompt(transcript, None)

\* Mutant: the summary is stored although the call then fails
summarize_stores_before_failing(recording_id, prompt, answered, summary, db_ok) ==
    IF answered
    THEN update_recording_summary(recording_id, Text(summary))
    ELSE recordings

\* generate_summary and regenerate_summary after the chat completion call:
\* answered: the API returned `summary`; db_ok: update_recording_summary committed.
\* Every exception is caught and turned into the failure dict.
summarize(recording_id, prompt, answered, summary, db_ok) ==
    IF answered /\ db_ok
    THEN update_recording_summary(recording_id, Text(summary))
    ELSE recordings

generate_summary(recording_id, transcript, recording_type, answered, summary, db_ok) ==
    /\ NoCallInFlight
    /\ recording_id \in 1..(Len(recordings) + 1)
    /\ recordings' = summarize(recording_id, _build_user_prompt(transcript, recording_type),
                               answered, summary, db_ok)
    /\ ret' = [op |-> "generate_summary", success |-> answered /\ db_ok, message |-> ""]
    /\ UNCHANGED <<cases, temp_files, audio_vars, now, users, audit_log, session_state, call, consec_failed>>

regenerate_summary(recording_id, transcript, custom_instructions, answered, summary, db_ok) ==
    /\ NoCallInFlight
    /\ recording_id \in 1..(Len(recordings) + 1)
    /\ recordings' = summarize(recording_id,
                               regenerate_prompt(transcript, custom_instructions),
                               answered, summary, db_ok)
    /\ ret' = [op |-> "regenerate_summary", success |-> answered /\ db_ok, message |-> ""]
    /\ UNCHANGED <<cases, temp_files, audio_vars, now, users, audit_log, session_state, call, consec_failed>>

\* case_detail.py: Save Changes calls case_service.update_recording_summary
UpdateRecordingSummary(recording_id, summary) ==
    /\ NoCallInFlight
    /\ recording_id \in 1..(Len(recordings) + 1)
    /\ recordings' = update_recording_summary(recording_id, Text(summary))
    /\ ret' = [op |-> "update_recording_summary", success |-> TRUE, message |-> ""]
    /\ UNCHANGED <<cases, temp_files, audio_vars, now, users, audit_log, session_state, call, consec_failed>>

NextPipeline ==
    \/ \E recording_type \in RecordingTypes, file_path \in FilePaths :
          CreateRecording(recording_type, file_path)
    \/ \E s \in Sessions, recording_id \in 1..(MaxRecordings + 1), file_path \in FilePaths,
          db_ok \in BOOLEAN :
          transcribe_recording(s, recording_id, file_path, db_ok)
    \/ \E s \in Sessions, ok \in BOOLEAN : transcribe_load_audio(s, ok)
    \/ \E s \in Sessions, outcome \in TempFileOutcomes : transcribe_temp_file(s, outcome)
    \/ \E s \in Sessions, transcript \in WhisperResponses : transcribe_whisper_ok(s, transcript)
    \/ \E s \in Sessions : transcribe_whisper_raises(s)
    \/ \E s \in Sessions, db_ok \in BOOLEAN : transcribe_update_transcript(s, db_ok)
    \/ \E s \in Sessions, ok \in BOOLEAN : transcribe_unlink(s, ok)
    \/ \E s \in Sessions, db_ok \in BOOLEAN : transcribe_except(s, db_ok)
    \/ \E recording_id \in 1..(MaxRecordings + 1), transcript \in TranscriptArguments,
          recording_type \in RecordingTypes, answered \in BOOLEAN,
          summary \in SummarizerAnswers, db_ok \in BOOLEAN :
          generate_summary(recording_id, transcript, recording_type, answered, summary, db_ok)
    \/ \E recording_id \in 1..(MaxRecordings + 1), transcript \in TranscriptArguments,
          custom_instructions \in CustomInstructions, answered \in BOOLEAN,
          summary \in SummarizerAnswers, db_ok \in BOOLEAN :
          regenerate_summary(recording_id, transcript, custom_instructions, answered,
                             summary, db_ok)
    \/ \E recording_id \in 1..(MaxRecordings + 1), summary \in SummarizerAnswers :
          UpdateRecordingSummary(recording_id, summary)

SpecPipeline == Init /\ [][NextPipeline]_vars

----------------------------------------------------------------------------
(* The pipeline when every step that a call has reached is eventually taken:
   the Whisper request returns or raises, and so does every database and file
   operation.  Which way a step goes stays open.                            *)

transcribe_step(s) ==
    \/ \E ok \in BOOLEAN : transcribe_load_audio(s, ok)
    \/ \E outcome \in TempFileOutcomes : transcribe_temp_file(s, outcome)
    \/ \E transcript \in WhisperResponses : transcribe_whisper_ok(s, transcript)
    \/ transcribe_whisper_raises(s)
    \/ \E db_ok \in BOOLEAN : transcribe_update_transcript(s, db_ok)
    \/ \E ok \in BOOLEAN : transcribe_unlink(s, ok)
    \/ \E db_ok \in BOOLEAN : transcribe_except(s, db_ok)

SpecPipelineFair == SpecPipeline /\ \A s \in Sessions : WF_vars(transcribe_step(s))

----------------------------------------------------------------------------

(* Two browser sessions on the case detail page at once: each script run keeps
   the recording it read when the page was drawn, and the service calls of the
   two sessions interleave step by step.                                     *)

\* case_detail.py, show_transcript: the page of session s is drawn (or rerun)
\* with the recording row it has just read
show_transcript(s, recording_id) ==
    /\ call[s] = Idle \/ call[s].op = "show_transcript"
    /\ recording_found(recording_id)
    /\ call' = [call EXCEPT ![s] =
                  [op |-> "show_transcript", recording_id |-> recording_id,
                   transcription_status |-> recordings[recording_id].transcription_status]]
    /\ UNCHANGED <<cases, temp_files, audio_vars, now, users, audit_log, session_state, recordings, ret,
                   consec_failed>>

\* Lines 160-174 and 181-195: Start Transcription Now is drawn when the row read
\* was pending, Retry Transcription when it was failed; the click calls
\* transcribe_recording
start_transcribe(s, db_ok) ==
    /\ call[s].op = "show_transcript"
    /\ call[s].transcription_status \in {"pending", "failed"}
    /\ begin_transcribe_recording(s, call[s].recording_id,
                                  recordings[call[s].recording_id].file_path, db_ok,
                                  call[s].transcription_status)

NextTranscribeConcurrent ==
    \/ \E recording_type \in RecordingTypes, file_path \in FilePaths :
          CreateRecording(recording_type, file_path)
    \/ \E s \in Sessions, recording_id \in 1..MaxRecordings : show_transcript(s, recording_id)
    \/ \E s \in Sessions, db_ok \in BOOLEAN : start_transcribe(s, db_ok)
    \/ \E s \in Sessions, ok \in BOOLEAN : transcribe_load_audio(s, ok)
    \/ \E s \in Sessions, outcome \in TempFileOutcomes : transcribe_temp_file(s, outcome)
    \/ \E s \in Sessions, transcript \in WhisperResponses : transcribe_whisper_ok(s, transcript)
    \/ \E s \in Sessions : transcribe_whisper_raises(s)
    \/ \E s \in Sessions, db_ok \in BOOLEAN : transcribe_update_transcript(s, db_ok)
    \/ \E s \in Sessions, ok \in BOOLEAN : transcribe_unlink(s, ok)
    \/ \E s \in Sessions, db_ok \in BOOLEAN : transcribe_except(s, db_ok)

SpecTranscribeConcurrent == Init /\ [][NextTranscribeConcurrent]_vars

----------------------------------------------------------------------------
(* Two authenticate_user calls at once: each call reads the user row in its own
   database session (login.py line 93), checks the password, changes the object
   it read and commits (lines 109-146).                                      *)

\* session.commit(): the UPDATE sets the columns whose value the call changed
\* on the object it had loaded, and leaves the other columns of the stored row
commit_user(stored, loaded, changed) ==
    [column \in DOMAIN stored |->
        IF changed[column] # loaded[column] THEN changed[column] ELSE stored[column]]

\* Lines 88-107: the call returns at once on empty credentials, an unknown,
\* deactivated or locked user; otherwise it holds the row it read
authenticate_user_query(s, username, password) ==
    LET r == authenticate_user(username, password, now) IN
    /\ call[s] = Idle
    /\ ~session_state[s].authenticated
    /\ IF r.write
       THEN /\ call' = [call EXCEPT ![s] =
                          [op |-> "authenticate_user", user_id |-> r.user_id,
                           password |-> password, user |-> users[r.user_id]]]
            /\ ret' = ret
       ELSE /\ call' = call
            /\ ret' = [op |-> "authenticate_user", success |-> FALSE,
                       message |-> r.message]
    /\ UNCHANGED <<cases, temp_files, audio_vars, now, users, audit_log, session_state, recordings,
                   consec_failed>>

\* Lines 109-146: verify_password on the row read, then the commit
authenticate_user_commit(s) ==
    /\ call[s].op = "authenticate_user"
    /\ LET uid == call[s].user_id
           r == check_password(call[s].user, uid, call[s].password, now)
       IN /\ Len(audit_log) + Len(r.audit) <= MaxAudit
          /\ users' = [users EXCEPT ![uid] = commit_user(@, call[s].user, r.row)]
          /\ audit_log' = audit_log \o r.audit
          /\ session_state' = IF r.success
                              THEN [session_state EXCEPT ![s] =
                                      [authenticated |-> TRUE, user_id |-> uid,
                                       role |-> call[s].user.role]]
                              ELSE session_state
          /\ ret' = [op |-> "authenticate_user", success |-> r.success,
                     message |-> r.message]
          /\ consec_failed' = IF r.success THEN [consec_failed EXCEPT ![uid] = 0]
                              ELSE [consec_failed EXCEPT ![uid] = @ + 1]
    /\ call' = [call EXCEPT ![s] = Idle]
    /\ UNCHANGED <<cases, temp_files, audio_vars, now, recordings>>

NextLoginConcurrent ==
    \/ Tick
    \/ \E s \in Sessions, username \in LoginUsernames, password \in LoginPasswords :
          authenticate_user_query(s, username, password)
    \/ \E s \in Sessions : authenticate_user_commit(s)
    \/ \E s \in Sessions : Logout(s)

SpecLoginConcurrent == Init /\ [][NextLoginConcurrent]_vars

----------------------------------------------------------------------------
(* src/services/audio_service.py *)

\* Lines 24-30: the instance of process p looks for the key file and reads it
\* when it is there
_get_or_create_encryption_key(p) ==
    /\ audio_service[p].pc = "import"
    /\ audio_service' = [audio_service EXCEPT ![p] =
                           IF key_file # NoKey
                           THEN [pc |-> "ready", encryption_key |-> key_file]
                           ELSE [pc |-> "create", encryption_key |-> NoKey]]
    /\ UNCHANGED <<cases, temp_files, now, users, audit_log, session_state, recordings, call, ret,
                   consec_failed, key_file, files>>

\* Lines 31-36: no key file was found: a new key is generated, written to the
\* key file (open 'wb' replaces what is there) and returned
create_encryption_key(p) ==
    /\ audio_service[p].pc = "create"
    /\ key_file' = generate_key(p)
    /\ audio_service' = [audio_service EXCEPT ![p] =
                           [pc |-> "ready", encryption_key |-> generate_key(p)]]
    /\ UNCHANGED <<cases, temp_files, now, users, audit_log, session_state, recordings, call, ret,
                   consec_failed, files>>

\* Durations are in hundredths of a second; round(x, 2) of n / d
BYTES_PER_SECOND == 16000 * 2
round2(n, d) == (n * 200 + d) \div (2 * d)

\* Lines 75-111
_calculate_duration(audio_bytes) ==
    IF audio_bytes.len < WAV_HEADER_BYTES THEN None
    ELSE IF ~audio_bytes.riff_wave
         THEN (audio_bytes.len * 100) \div BYTES_PER_SECOND
    ELSE IF audio_bytes.byte_rate = 0
         \* ZeroDivisionError, caught at line 108
         THEN round2(audio_bytes.len, BYTES_PER_SECOND)
    ELSE round2(audio_bytes.len - WAV_HEADER_BYTES, audio_bytes.byte_rate)

\* Lines 38-73
save_audio(p, audio_bytes, case_id, user_id) ==
    LET file_path == file_path_of(case_id, user_id, now) IN
    /\ audio_service[p].pc = "ready"
    /\ files' = [files EXCEPT ![file_path] =
                    encrypt(audio_service[p].encryption_key, audio_bytes)]
    /\ ret' = [op |-> "save_audio", success |-> TRUE, message |-> "",
               file_path |-> relative_to_root(file_path),
               duration_seconds |-> _calculate_duration(audio_bytes)]
    /\ UNCHANGED <<cases, temp_files, now, users, audit_log, session_state, recordings, call,
                   consec_failed, key_file, audio_service>>

\* Lines 123-131: what load_audio of process p returns or raises for file_path
read_audio(p, file_path) ==
    IF files[full_path(file_path)] = NoFile THEN FileNotFoundError
    ELSE decrypt(audio_service[p].encryption_key, files[full_path(file_path)])

\* Lines 113-131
load_audio(p, file_path) ==
    /\ audio_service[p].pc = "ready"
    /\ ret' = IF read_audio(p, file_path).raised = ""
              THEN [op |-> "load_audio", success |-> TRUE, message |-> "",
                    file_path |-> file_path,
                    audio_bytes |-> read_audio(p, file_path).audio_bytes]
              ELSE [op |-> "load_audio", success |-> FALSE,
                    message |-> read_audio(p, file_path).raised]
    /\ UNCHANGED <<cases, temp_files, now, users, audit_log, session_state, recordings, call,
                   consec_failed, audio_vars>>

NextAudio ==
    \/ Tick
    \/ \E p \in Processes : _get_or_create_encryption_key(p)
    \/ \E p \in Processes : create_encryption_key(p)
    \/ \E p \in Processes, audio_bytes \in Payloads, case_id \in CaseIds :
          save_audio(p, audio_bytes, case_id, 1)
    \/ \E p \in Processes, file_path \in AudioPaths : load_audio(p, file_path)

SpecAudio == Init /\ [][NextAudio]_vars

(* src/services/case_service.py: get_or_create_case;
   src/ui/pages/record.py: save_recording *)

CaseReferences == {"CASE-1", "CASE-2"}

\* Lines 27-31: query(Case).filter_by(case_reference_id=...): the rows that
\* .first() can return.  created_by is not part of the filter.
cases_by_reference(case_reference_id) ==
    { case_id \in 1..Len(cases) : cases[case_id].case_reference_id = case_reference_id }

\* .first(): one of the rows (the query has no ORDER BY), or 0 for None
first(rows) == IF rows = {} THEN {0} ELSE rows

\* What get_or_create_case returns
case_dict(case_id, table) ==
    [op |-> "get_or_create_case", success |-> TRUE, message |-> "",
     case_id |-> case_id, created_by |-> table[case_id].created_by,
     last_updated |-> table[case_id].last_updated]

\* Mutant: the existing case is returned without touching last_updated
get_or_create_case_untouched(found, case_reference_id, user_id, t) ==
    IF found # 0
    THEN cases
    ELSE Append(cases, [case_reference_id |-> case_reference_id,
                        created_by |-> user_id, created_at |-> t,
                        last_updated |-> t, status |-> "active"])

\* Lines 33-36 and 47-58: the table after the commit, found being what the
\* query returned
get_or_create_case(found, case_reference_id, user_id, t) ==
    IF found # 0
    THEN [cases EXCEPT ![found].last_updated = t]
    ELSE Append(cases, [case_reference_id |-> case_reference_id,
                        created_by |-> user_id, created_at |-> t,
                        last_updated |-> t, status |-> "active"])

\* The case_id of the row that get_or_create_case returns
returned_case_id(found) == IF found # 0 THEN found ELSE Len(cases) + 1

\* record.py lines 189-194: Save and Process Recording calls get_or_create_case
\* with the user of the session; an exception ends save_recording at line 246
save_recording(s, case_reference_id, user_id, db_ok) ==
    /\ NoCallInFlight
    /\ Len(recordings) < MaxRecordings
    /\ \E found \in first(cases_by_reference(case_reference_id)) :
          /\ found = 0 => Len(cases) < MaxCases
          /\ IF db_ok
             THEN LET table == get_or_create_case(found, case_reference_id, user_id, now)
                  IN /\ cases' = table
                     /\ call' = [call EXCEPT ![s] =
                                   [op |-> "save_recording", pc |-> "save_audio",
                                    case_id |-> returned_case_id(found),
                                    user_id |-> user_id, file_path |-> NULL]]
                     /\ ret' = case_dict(returned_case_id(found), table)
             ELSE /\ UNCHANGED <<cases, call>>
                  /\ ret' = [op |-> "save_recording", success |-> FALSE,
                             message |-> "get_or_create_case raised"]
    /\ UNCHANGED <<temp_files, audio_vars, now, users, audit_log, session_state,
                   recordings, consec_failed>>

\* Lines 196-201: audio_service.save_audio stores the encrypted file and returns
\* its path, or raises
save_recording_save_audio(s, ok) ==
    /\ call[s].op = "save_recording" /\ call[s].pc = "save_audio"
    /\ IF ok
       THEN /\ call' = [call EXCEPT ![s].pc = "create_recording",
                           ![s].file_path = relative_to_root(
                               file_path_of(call[s].case_id, call[s].user_id, now))]
            /\ ret' = ret
       ELSE /\ call' = [call EXCEPT ![s] = Idle]
            /\ ret' = [op |-> "save_recording", success |-> FALSE,
                       message |-> "save_audio raised"]
    /\ UNCHANGED <<cases, temp_files, audio_vars, now, users, audit_log, session_state,
                   recordings, consec_failed>>

\* Lines 203-218: case_service.create_recording inserts the recording, or raises
save_recording_create_recording(s, recording_type, db_ok) ==
    /\ call[s].op = "save_recording" /\ call[s].pc = "create_recording"
    /\ recordings' = IF db_ok
                     THEN create_recording(call[s].case_id, call[s].user_id,
                                           recording_type, call[s].file_path, now)
                     ELSE recordings
    /\ call' = [call EXCEPT ![s] = Idle]
    /\ ret' = IF db_ok
              THEN [op |-> "create_recording", success |-> TRUE, message |-> ""]
              ELSE [op |-> "save_recording", success |-> FALSE,
                    message |-> "create_recording raised"]
    /\ UNCHANGED <<cases, temp_files, audio_vars, now, users, audit_log, session_state,
                   consec_failed>>

NextCases ==
    \/ Tick
    \/ \E s \in Sessions, case_reference_id \in CaseReferences, user_id \in UserIds,
          db_ok \in BOOLEAN :
          save_recording(s, case_reference_id, user_id, db_ok)
    \/ \E s \in Sessions, ok \in BOOLEAN : save_recording_save_audio(s, ok)
    \/ \E s \in Sessions, recording_type \in RecordingTypes, db_ok \in BOOLEAN :
          save_recording_create_recording(s, recording_type, db_ok)

SpecCases == Init /\ [][NextCases]_vars

----------------------------------------------------------------------------
(* Two get_or_create_case calls at once, each in a database session of its own:
   the query of lines 27-31 and the commit of line 36 or 58 are separate
   statements, and nothing in the schema (models.py line 44: an index, not a
   unique constraint) makes the second insert fail.                          *)

\* Lines 27-31: the call holds what its query returned
get_or_create_case_query(s, case_reference_id, user_id) ==
    /\ call[s] = Idle
    /\ \E found \in first(cases_by_reference(case_reference_id)) :
          /\ found = 0 =>
                Len(cases) + Cardinality({ o \in Sessions :
                                call[o].op = "get_or_create_case" /\ call[o].found = 0 })
                    < MaxCases
          /\ call' = [call EXCEPT ![s] =
                        [op |-> "get_or_create_case", found |-> found,
                         case_reference_id |-> case_reference_id, user_id |-> user_id]]
    /\ UNCHANGED <<cases, temp_files, audio_vars, now, users, audit_log, session_state,
                   recordings, ret, consec_failed>>

\* Lines 33-46 and 47-68: the update or the insert is committed and the dict returned
get_or_create_case_commit(s) ==
    /\ call[s].op = "get_or_create_case"
    /\ LET table == get_or_create_case(call[s].found, call[s].case_reference_id,
                                       call[s].user_id, now)
       IN /\ cases' = table
          /\ ret' = case_dict(returned_case_id(call[s].found), table)
    /\ call' = [call EXCEPT ![s] = Idle]
    /\ UNCHANGED <<temp_files, audio_vars, now, users, audit_log, session_state,
                   recordings, consec_failed>>

NextCasesConcurrent ==
    \/ Tick
    \/ \E s \in Sessions, case_reference_id \in CaseReferences, user_id \in UserIds :
          get_or_create_case_query(s, case_reference_id, user_id)
    \/ \E s \in Sessions : get_or_create_case_commit(s)

SpecCasesConcurrent == Init /\ [][NextCasesConcurrent]_vars

----------------------------------------------------------------------------

Next == NextAuth \/ NextPipeline \/ NextAudio \/ NextCases

Spec == Init /\ [][Next]_vars

----------------------------------------------------------------------------
(* Properties of authentication, checked under SpecAuth *)

LoginInputs == Sessions \X Usernames \X (LoginPasswords \ {PwEmpty})

\* The consecutive failed password checks of user uid have reached the maximum
\* and the lock they set has not expired
LockedOut(uid) ==
    /\ consec_failed[uid] >= MAX_LOGIN_ATTEMPTS
    /\ users[uid].locked_until # None
    /\ users[uid].locked_until > now

\* C1: once MAX_LOGIN_ATTEMPTS consecutive failed password checks of an active
\* user have occurred, the lock is set (to LOCKOUT_DURATION_MINUTES after the
\* last failure), and every authenticate_user call made while locked_until is
\* in the future is rejected as locked, with the correct password too: the
\* session is not authenticated and the user row is not touched.
C1_LockedOutRejected ==
    [][\A in \in LoginInputs :
        LET uid == user_by_username(in[2]) IN
        (uid # 0 /\ Login(in[1], in[2], in[3]) /\ users[uid].is_active) =>
            /\ (consec_failed[uid] < MAX_LOGIN_ATTEMPTS
                    /\ consec_failed'[uid] >= MAX_LOGIN_ATTEMPTS)
                => users'[uid].locked_until = now + LOCKOUT_DURATION_MINUTES
            /\ consec_failed[uid] >= MAX_LOGIN_ATTEMPTS
                => users[uid].locked_until # None
            /\ LockedOut(uid)
                => /\ ~ret'.success
                   /\ ret'.message = "locked"
                   /\ ~session_state'[in[1]].authenticated
                   /\ users' = users
    ]_vars

\* A locked-out active user has just been turned away
C1_Witness ==
    \E uid \in 1..Len(users) :
        /\ users[uid].is_active
        /\ LockedOut(uid)
        /\ users[uid].failed_login_attempts = MAX_LOGIN_ATTEMPTS
        /\ ret = [op |-> "authenticate_user", success |-> FALSE, message |-> "locked"]

\* C2: whenever authenticate_user succeeds for a user, that user's
\* failed_login_attempts is 0 and locked_until is None right after the call.
C2_SuccessResetsCounterAndLock ==
    [][\A in \in LoginInputs :
        LET uid == user_by_username(in[2]) IN
        (Login(in[1], in[2], in[3]) /\ ret'.success) =>
            /\ uid # 0
            /\ users'[uid].failed_login_attempts = 0
            /\ users'[uid].locked_until = None
            /\ users'[uid].last_login = now
    ]_vars

\* A login has succeeded right after a failed one of the same user
C2_Witness ==
    /\ ret.op = "authenticate_user" /\ ret.success
    /\ \E n \in 2..Len(audit_log) :
        /\ n = Len(audit_log)
        /\ audit_log[n].action = "login"
        /\ audit_log[n - 1] = log_audit(audit_log[n].user_id, "login_failed")
        /\ users[audit_log[n].user_id].failed_login_attempts = 0

\* C3: for an active user locked out by MAX_LOGIN_ATTEMPTS failed logins, once
\* the time has reached or passed locked_until, authenticate_user with the
\* correct password succeeds and failed_login_attempts is 0 afterwards.
C3_LoginAfterLockExpiry ==
    [][\A in \in LoginInputs :
        LET uid == user_by_username(in[2]) IN
        (/\ uid # 0
         /\ Login(in[1], in[2], in[3])
         /\ users[uid].is_active
         /\ consec_failed[uid] >= MAX_LOGIN_ATTEMPTS
         /\ users[uid].locked_until # None
         /\ now >= users[uid].locked_until
         /\ verify_password(in[3], users[uid].password_hash)) =>
            /\ ret'.success
            /\ session_state'[in[1]].authenticated
            /\ session_state'[in[1]].user_id = uid
            /\ users'[uid].failed_login_attempts = 0
    ]_vars

\* MAX_LOGIN_ATTEMPTS failed logins of one user, then the clock reaching the lock,
\* then that user's successful login
C3_Witness ==
    /\ ret.op = "authenticate_user" /\ ret.success
    /\ Len(audit_log) = MAX_LOGIN_ATTEMPTS + 1
    /\ \E uid \in 1..Len(users) :
        /\ \A n \in 1..MAX_LOGIN_ATTEMPTS : audit_log[n] = log_audit(uid, "login_failed")
        /\ audit_log[MAX_LOGIN_ATTEMPTS + 1] = log_audit(uid, "login")
        /\ users[uid].failed_login_attempts = 0
        /\ users[uid].last_login = now
        /\ now >= LOCKOUT_DURATION_MINUTES

\* C4: failed_login_attempts is 0 right after every successful login, every
\* successful reset_password and every successful change_own_password.
C4_CounterZeroAfterLoginResetChange ==
    [][/\ \A in \in LoginInputs :
            (Login(in[1], in[2], in[3]) /\ ret'.success)
                => users'[user_by_username(in[2])].failed_login_attempts = 0
       /\ \A s \in Sessions, uid \in UserIds, pw \in NewPasswords :
            (ResetPassword(s, uid, pw) /\ ret'.success)
                => users'[uid].failed_login_attempts = 0
       /\ \A s \in Sessions, cur \in LoginPasswords, pw \in NewPasswords :
            (ChangeOwnPassword(s, cur, pw) /\ ret'.success)
                => users'[session_state[s].user_id].failed_login_attempts = 0
    ]_vars

\* C5: every authenticate_user call with non-empty credentials against an
\* existing user appends exactly one audit_log row of that user, whatever the
\* outcome (success, bad password, locked, deactivated).
C5_EveryAttemptAudited ==
    [][\A in \in LoginInputs :
        LET uid == user_by_username(in[2]) IN
        (uid # 0 /\ Login(in[1], in[2], in[3])) =>
            /\ Len(audit_log') = Len(audit_log) + 1
            /\ SubSeq(audit_log', 1, Len(audit_log)) = audit_log
            /\ audit_log'[Len(audit_log')].user_id = uid
    ]_vars

\* C6: authenticate_user for a user whose is_active is false is rejected whatever
\* the password and the lock state, and leaves failed_login_attempts,
\* locked_until and last_login as they were.
C6_DeactivatedRejectedUntouched ==
    [][\A in \in LoginInputs :
        LET uid == user_by_username(in[2]) IN
        (uid # 0 /\ Login(in[1], in[2], in[3]) /\ ~users[uid].is_active) =>
            /\ ~ret'.success
            /\ ret'.message = "deactivated"
            /\ ~session_state'[in[1]].authenticated
            /\ users'[uid].failed_login_attempts = users[uid].failed_login_attempts
            /\ users'[uid].locked_until = users[uid].locked_until
            /\ users'[uid].last_login = users[uid].last_login
    ]_vars

\* A deactivated user whose lock has expired and whose counter is not 0 has just
\* been turned away
C6_Witness ==
    /\ ret = [op |-> "authenticate_user", success |-> FALSE, message |-> "deactivated"]
    /\ \E uid \in 1..Len(users) :
        /\ ~users[uid].is_active
        /\ users[uid].failed_login_attempts > 0
        /\ users[uid].locked_until # None
        /\ users[uid].locked_until <= now

----------------------------------------------------------------------------
(* Properties of the recording pipeline, checked under SpecPipeline *)

Status(r) == recordings[r].transcription_status

\* C7: whenever a transcribe_recording call on an existing recording fails at
\* any step after it set the status to processing, transcription_status is
\* 'failed' when the call ends.
C7_FailedCallLandsInFailed ==
    [][\A s \in Sessions :
        (/\ InCall(s, "except")
         /\ call[s].marked
         /\ call'[s] = Idle) =>
            recordings'[call[s].recording_id].transcription_status = "failed"
    ]_vars

\* C8: a recording is created pending, and its transcription_status becomes
\* 'completed' only in a step whose previous status was 'processing'.
C8_CompletedOnlyFromProcessing ==
    [][/\ \A r \in 1..Len(recordings') :
            r > Len(recordings) => recordings'[r].transcription_status = "pending"
       /\ \A r \in 1..Len(recordings) :
            (recordings'[r].transcription_status = "completed" /\ Status(r) # "completed")
                => Status(r) = "processing"
    ]_vars

\* A recording has been transcribed
C8_Witness ==
    \E r \in 1..Len(recordings) :
        /\ Status(r) = "completed"
        /\ recordings[r].transcript_text # NULL
        /\ recordings[r].transcription_started_at # None
        /\ ret = [op |-> "transcribe_recording", success |-> TRUE, message |-> ""]

StatusEdges ==
    { <<"pending", "processing">>, <<"processing", "completed">>,
      <<"processing", "failed">>, <<"failed", "processing">> }

\* C9: every change of a recording's transcription_status follows one of the
\* four edges pending -> processing, processing -> completed,
\* processing -> failed, failed -> processing.
C9_OnlyFourEdges ==
    [][\A r \in 1..Len(recordings) :
        recordings'[r].transcription_status # Status(r)
            => <<Status(r), recordings'[r].transcription_status>> \in StatusEdges
    ]_vars

\* C10: in every reachable state, a recording whose summary_text is not null
\* has a transcript_text that is not null.
C10_SummaryImpliesTranscript ==
    \A r \in 1..Len(recordings) :
        recordings[r].summary_text # NULL => recordings[r].transcript_text # NULL

\* Some generate_summary or regenerate_summary call for recording_id is this step
SummarizationCall(recording_id) ==
    \E transcript \in TranscriptArguments, answered \in BOOLEAN,
       summary \in SummarizerAnswers, db_ok \in BOOLEAN :
        \/ \E recording_type \in RecordingTypes :
              generate_summary(recording_id, transcript, recording_type, answered,
                               summary, db_ok)
        \/ \E custom_instructions \in CustomInstructions :
              regenerate_summary(recording_id, transcript, custom_instructions,
                                 answered, summary, db_ok)

\* C11: a generate_summary or regenerate_summary call for a recording whose
\* stored transcript_text is null is rejected (it does not return success, which
\* it only does after the Summarizer answered) and writes no summary_text.
C11_NoTranscriptNoSummary ==
    [][\A recording_id \in 1..Len(recordings) :
        (SummarizationCall(recording_id)
            /\ recordings[recording_id].transcript_text = NULL) =>
                /\ ~ret'.success
                /\ recordings'[recording_id].summary_text
                       = recordings[recording_id].summary_text
    ]_vars

C13_FailedCallWritesNoTranscript ==
    [][\A s \in Sessions :
        (/\ InCall(s, "except")
         /\ call'[s] = Idle
         /\ ret' = [op |-> "transcribe_recording", success |-> FALSE, message |-> "error"]
         /\ recording_found(call[s].recording_id)) =>
            recordings'[call[s].recording_id].transcript_text = call[s].transcript_before
    ]_vars

\* C14: transcribe_recording and generate_summary never let an exception reach
\* their caller: every call ends by returning a result dict.
C14_NoExceptionReachesCaller ==
    ret.op \in {"transcribe_recording", "generate_summary"} => ret.message # "raised"

----------------------------------------------------------------------------
(* Properties of overlapping calls, checked under SpecTranscribeConcurrent *)

\* Session s is in a transcribe_recording call for r that it started from a page
\* showing r as pending, has set r to processing and has called the Transcriber
TranscribingFromPending(s, r) ==
    /\ call[s].op = "transcribe_recording"
    /\ call[s].recording_id = r
    /\ call[s].seen = "pending"
    /\ call[s].marked
    /\ call[s].pc \in {"update_transcript", "unlink"}

\* C15: two transcribe_recording calls for the same recording, started by two
\* sessions that both saw it pending, never both set it to processing and both
\* call the Transcriber.
C15_OneTranscriptionAtATime ==
    \A r \in 1..Len(recordings) : \A s1, s2 \in Sessions :
        s1 # s2 => ~(TranscribingFromPending(s1, r) /\ TranscribingFromPending(s2, r))

\* C16 (checked under SpecLoginConcurrent): every authenticate_user call with a
\* wrong password for an unlocked active user adds exactly 1 to the stored
\* failed_login_attempts, however the calls interleave, and the account is
\* locked as soon as the count reaches MAX_LOGIN_ATTEMPTS.
C16_NoLostFailedAttempt ==
    [][\A s \in Sessions :
        (authenticate_user_commit(s) /\ ~ret'.success) =>
            LET uid == call[s].user_id IN
            /\ users'[uid].failed_login_attempts = users[uid].failed_login_attempts + 1
            /\ users'[uid].failed_login_attempts >= MAX_LOGIN_ATTEMPTS
                  => users'[uid].locked_until # None
    ]_vars

----------------------------------------------------------------------------
(* Properties of the audio store, checked under SpecAudio *)

\* C17: when two processes construct AudioService while no key file exists,
\* every instance ends up with the key that the key file holds.
C17_OneKeyPerDeployment ==
    \A p \in Processes :
        audio_service[p].pc = "ready" => audio_service[p].encryption_key = key_file

\* Some save_audio call of process p for this payload is this step
SaveAudioCall(p, audio_bytes) ==
    \E case_id \in CaseIds : save_audio(p, audio_bytes, case_id, 1)

\* C18: the file path a save_audio call returns is not the path of a file an
\* earlier save_audio call wrote, so no call overwrites an earlier file.
C18_SavePathsDistinct ==
    [][\A p \in Processes, audio_bytes \in Payloads :
        SaveAudioCall(p, audio_bytes) => files[full_path(ret'.file_path)] = NoFile
    ]_vars

C20_DurationAlwaysSet ==
    [][\A p \in Processes, audio_bytes \in Payloads :
        SaveAudioCall(p, audio_bytes) => ret'.duration_seconds # None
    ]_vars

----------------------------------------------------------------------------
(* Properties of the lock fields, checked under SpecAuth *)

\* C26: in every state reached by sequential authenticate_user, create_user,
\* reset_password, change_own_password, activate_user and deactivate_user
\* calls, a user's locked_until is non-null if and only if its
\* failed_login_attempts is at least MAX_LOGIN_ATTEMPTS.
C26_LockedIffCounterAtMaximum ==
    \A uid \in 1..Len(users) :
        users[uid].locked_until # None
            <=> users[uid].failed_login_attempts >= MAX_LOGIN_ATTEMPTS

\* A user created by the administrator has been locked by failed logins
C26_Witness ==
    \E uid \in 2..Len(users) :
        /\ users[uid].locked_until # None
        /\ users[uid].failed_login_attempts >= MAX_LOGIN_ATTEMPTS
        /\ users[uid].last_login = None

\* C27: after a lock has expired and before any successful login or reset, one
\* more failed password attempt sets locked_until to now +
\* LOCKOUT_DURATION_MINUTES again.
C27_OneFailureRelocks ==
    [][\A in \in LoginInputs :
        LET uid == user_by_username(in[2]) IN
        (/\ uid # 0
         /\ Login(in[1], in[2], in[3])
         /\ users[uid].is_active
         /\ consec_failed[uid] >= MAX_LOGIN_ATTEMPTS
         /\ users[uid].locked_until # None
         /\ users[uid].locked_until <= now
         /\ ~verify_password(in[3], users[uid].password_hash)) =>
            /\ ~ret'.success
            /\ users'[uid].locked_until = now + LOCKOUT_DURATION_MINUTES
            /\ users'[uid].failed_login_attempts = users[uid].failed_login_attempts + 1
    ]_vars

\* The failure after an expired lock has locked the account again
C27_Witness ==
    /\ ret = [op |-> "authenticate_user", success |-> FALSE,
              message |-> "too_many_attempts"]
    /\ \E uid \in 1..Len(users) :
        /\ users[uid].failed_login_attempts = MAX_LOGIN_ATTEMPTS + 1
        /\ users[uid].locked_until = now + LOCKOUT_DURATION_MINUTES
        /\ now >= LOCKOUT_DURATION_MINUTES

\* C28: an authenticate_user call rejected because the account is locked leaves
\* failed_login_attempts and locked_until as they were.
C28_LockedAttemptNotCounted ==
    [][\A in \in LoginInputs :
        LET uid == user_by_username(in[2]) IN
        (/\ uid # 0
         /\ Login(in[1], in[2], in[3])
         /\ users[uid].is_active
         /\ is_locked(users[uid], now)) =>
            /\ users'[uid].failed_login_attempts = users[uid].failed_login_attempts
            /\ users'[uid].locked_until = users[uid].locked_until
    ]_vars

\* A wrong or right password has been turned away during a lock that the
\* attempt did not extend
C28_Witness ==
    /\ ret.op = "authenticate_user" /\ ret.message = "locked"
    /\ now = 0
    /\ \E uid \in 1..Len(users) :
        /\ users[uid].locked_until = LOCKOUT_DURATION_MINUTES
        /\ users[uid].failed_login_attempts = consec_failed[uid]
        /\ Len(audit_log) = consec_failed[uid]


----------------------------------------------------------------------------
(* Properties of manual edits and of temporary files, checked under SpecPipeline *)

\* C24: a manual summary edit overwrites summary_text and stamps the recording:
\* last_edited_by is the editor (a user id, so not None) and last_edited_at is
\* the time of the edit.
C24_ManualEditIsStamped ==
    [][\A recording_id \in 1..MaxRecordings, summary \in SummarizerAnswers :
        (recording_found(recording_id) /\ UpdateRecordingSummary(recording_id, summary)) =>
            /\ recordings'[recording_id].summary_text = Text(summary)
            /\ recordings'[recording_id].last_edited_by \in UserIds
            /\ recordings'[recording_id].last_edited_at = now
    ]_vars

\* C30: when transcribe_recording has returned, no temporary file holding
\* decrypted audio is left on disk, whichever step of the call failed.
C30_NoTempFileAfterReturn ==
    (NoCallInFlight /\ ret.op = "transcribe_recording") => temp_files = {}


----------------------------------------------------------------------------
(* Termination of the pipeline, checked under SpecPipelineFair *)

\* C25: when every step of a call returns or raises, every transcribe_recording
\* call ends, and every recording that is 'processing' is later 'completed' or
\* 'failed'.
C25_ProcessingEnds ==
    /\ \A s \in Sessions :
          (call[s].op = "transcribe_recording") ~> (call[s] = Idle)
    /\ \A recording_id \in 1..MaxRecordings :
          (/\ recording_found(recording_id)
           /\ recordings[recording_id].transcription_status = "processing")
          ~> (/\ recording_found(recording_id)
              /\ recordings[recording_id].transcription_status \in {"completed", "failed"})


----------------------------------------------------------------------------
(* Properties of cases, checked under SpecCases and SpecCasesConcurrent *)

C22_AttachmentTouchesCase ==
    [][\A s \in Sessions, recording_type \in RecordingTypes :
        (/\ call[s].op = "save_recording"
         /\ save_recording_create_recording(s, recording_type, TRUE)) =>
            cases'[call[s].case_id].last_updated = now
    ]_vars

\* C23: the case that get_or_create_case hands to save_recording was created by
\* the calling user, and every recording is attached to a case of its uploader.
C23_CaseOwnedByCaller ==
    /\ \A s \in Sessions :
          call[s].op = "save_recording" =>
              cases[call[s].case_id].created_by = call[s].user_id
    /\ \A recording_id \in 1..Len(recordings) :
          cases[recordings[recording_id].case_id].created_by
              = recordings[recording_id].uploaded_by

\* C29: after any interleaving of get_or_create_case calls, no two Case rows
\* have the same case_reference_id.
C29_OneCasePerReference ==
    \A case_id \in 1..Len(cases), other \in 1..Len(cases) :
        cases[case_id].case_reference_id = cases[other].case_reference_id
            => case_id = other

=============================================================================
